---- MODULE Spec2Model ----
(***************************************************************************)
(* A model of package cmd (mh-orange/cmd): the lock-protected fan-out      *)
(* writer multiWriter, the test double testProcess and the real process    *)
(* built on os/exec.                                                       *)
(*                                                                         *)
(* Threads are goroutines.  A call of a multiWriter method takes two       *)
(* steps: mu.Lock with the body that runs under the lock, and then         *)
(* mu.Unlock with the return.                                              *)
(***************************************************************************)
EXTENDS Integers, Sequences, FiniteSets, TLC

\* ------------------------------------------------------------------ bounds
MaxSinks == 3      \* writers added to a bare multiWriter
MaxRegs == 2       \* writers registered on the two streams of one process
MaxLen == 1        \* bytes of one stream / one Write buffer
MaxOps == 2        \* Write and Close calls made by the clients of a bare multiWriter
MaxArgs == 3       \* AppendArgs calls made on one process

\* ------------------------------------------------------------- vocabulary
Nil == "nil"
EOF == "EOF"                        \* io.EOF, the error of errWriter.Write and closeWriter.Close
ErrShortWrite == "ErrShortWrite"    \* io.ErrShortWrite
Free == "free"                      \* an unlocked sync.Mutex

MW == {"out", "err"}                \* the two multiWriters of a process
Clients == {"caller"}               \* the goroutine calling a bare multiWriter
\* The processes made from the Command.  Main is the process of the
\* specifications with one process, and the testProcess.
ProcIds == {1, 2}
Main == 1
\* proc.stdout and proc.stderr of process p: "out" and "err" are those of Main
Stream(p, m) == IF p = Main THEN m ELSE IF m = "out" THEN "out2" ELSE "err2"
Streams == {Stream(p, m) : p \in ProcIds, m \in MW}
\* The goroutine of process p that copies stream m: "gout" and "gerr" are
\* those of Main.
Drain(p, m) == IF p = Main THEN (IF m = "out" THEN "gout" ELSE "gerr")
               ELSE (IF m = "out" THEN "gout2" ELSE "gerr2")
Threads == {"caller"} \cup {Drain(p, m) : p \in ProcIds, m \in MW}

\* The bytes of a stream: OutBytes(n) on stdout, ErrBytes(n) on stderr.
OutBytes(n) == [i \in 1..n |-> i]
ErrBytes(n) == [i \in 1..n |-> 10 + i]
Bufs == {OutBytes(n) : n \in 0..MaxLen}

\* An io.Writer is known by what its Write does (w) and by whether it is an
\* io.Closer and what its Close returns (c).
errWriter == [w |-> "err", c |-> "none"]
shortWriter == [w |-> "short", c |-> "none"]
bufferWriter == [w |-> "ok", c |-> "none"]
closeWriter == [w |-> "ok", c |-> "err"]
fileWriter == [w |-> "ok", c |-> "ok"]
Kinds == {errWriter, shortWriter, bufferWriter, closeWriter, fileWriter}
\* The writers registered on a testProcess: one that takes everything, one
\* whose Write fails, one whose Close fails.
ProcKinds == {bufferWriter, errWriter, closeWriter}
\* The writers registered on a process: one that takes everything and has a
\* Close, and one whose Write fails, with an error on stdout and with a short
\* count on stderr.
RealKinds(m) == {closeWriter, IF m = "out" THEN errWriter ELSE shortWriter}

VARIABLES
    writers,   \* writers[m]: multiWriter m's slice of writers (sink ids), in order
    sinks,     \* sinks[id]: kind, bytes accepted, Write calls, Close calls of sink id
    mu,        \* mu[m]: the goroutine holding multiWriter m's mutex, or Free
    fr,        \* fr[t]: the multiWriter call goroutine t is in
    pc,        \* pc[t]: where goroutine t is in its own code
    nops,      \* Write and Close calls made so far by the clients
    tp,        \* the testProcess: its stdout and stderr bytes, startErr, waitErr, killErr
    wg,        \* tp.wg, the counter of the sync.WaitGroup
    ret,       \* the last value a method returned to the caller: [op, err]
    starts,    \* starts[p]: what Start of process p returned, "none" before Start
    atStart,   \* atStart[m]: how many writers m had when Start was called
    waits,     \* waits[p]: a Wait of p called after a successful Start has returned
    cmdv,      \* the cmd struct: path, args
    proc,      \* proc[p]: the process struct of process p: cmd.Path, cmd.Args, args
    osps       \* osps[p]: the exec.Cmd of process p and the OS process behind it

tpVars == <<tp, wg>>
callVars == <<ret, starts, atStart, waits>>
osVars == <<cmdv, proc, osps>>
others == <<tpVars, callVars, osVars>>
vars == <<writers, sinks, mu, fr, pc, nops, tp, wg, ret, starts, atStart, waits,
          cmdv, proc, osps>>

\* Those of Main.
started == starts[Main]
waited == waits[Main]
osp == osps[Main]

\* ----------------------------------------------------------------- sinks
NewSink(k) == [kind |-> k, data |-> <<>>, nw |-> 0, nc |-> 0]

\* The first n bytes of p (none when n <= 0).
Accepted(n, p) == SubSeq(p, 1, n)

\* errWriter.Write, shortWriter.Write, closeWriter.Write, bytes.Buffer.Write:
\* the (n, err) a writer of kind k returns for buffer p.
sink_Write(k, p) ==
    CASE k.w = "err" -> [n |-> 0, err |-> EOF]
      [] k.w = "short" -> [n |-> Len(p) - 1, err |-> Nil]
      [] OTHER -> [n |-> Len(p), err |-> Nil]

\* closeWriter.Close: the error a closer of kind k returns.
sink_Close(k) == IF k.c = "err" THEN EOF ELSE Nil

\* writer.(io.Closer): whether a writer of kind k has a Close method.
IsCloser(k) == k.c # "none"

\* ---------------------------------------------------------------- frames
\* fr[t] is the call of add, Write or close that goroutine t is inside of,
\* from mw.mu.Lock() to mw.mu.Unlock(); with op "none" it keeps the n and err
\* that t's last call returned.  The loop of Write and of close runs
\* under the lock, where no other goroutine reaches the writers, so it is one
\* step.  n and err are what the call returns; log (the sinks invoked, in
\* order) and snap (the multiWriter's sinks as they were when the lock was
\* taken) are history, read by the properties only.
NoFrame == [op |-> "none", m |-> "out", p |-> <<>>, n |-> 0, err |-> Nil,
            log |-> <<>>, snap |-> <<>>]

Range(ws) == {ws[j] : j \in 1..Len(ws)}
Snap(m) == [id \in Range(writers[m]) |-> sinks[id]]

\* MUTANT of AfterCall: a goroutine of testProcess.Start ends at a Write or a
\* Close that failed.
AfterCall_endsAtError(at, err) ==
    CASE at = "call" -> "idle"
      [] at = "writing" -> IF err = Nil THEN "wrote" ELSE "failed"
      [] at = "closing" -> IF err = Nil THEN "closed" ELSE "failed"
      [] at = "copying" -> IF err = Nil THEN "read" ELSE "copied"
      [] at = "finishing" -> "end"
      [] OTHER -> at

\* MUTANT of AfterCall: copy calls close again when close has returned.
AfterCall_closesAgain(at, err) ==
    CASE at = "call" -> "idle"
      [] at = "writing" -> "wrote"
      [] at = "closing" -> "closed"
      [] at = "copying" -> IF err = Nil THEN "read" ELSE "copied"
      [] at = "finishing" -> "copied"
      [] OTHER -> at

\* MUTANT of AfterCall: io.Copy reads on after a Write that failed.
AfterCall_readsOn(at, err) ==
    CASE at = "call" -> "idle"
      [] at = "writing" -> "wrote"
      [] at = "closing" -> "closed"
      [] at = "copying" -> "read"
      [] at = "finishing" -> "end"
      [] OTHER -> at

\* Where a goroutine at `at` goes on when its call returns err: the caller is
\* idle again after add; a goroutine of testProcess.Start goes from Write to
\* Close and from Close to wg.Done; io.Copy inside copy reads on after a Write
\* that returned nil and returns after one that did not, and copy ends when
\* close has returned.
AfterCall(at, err) ==
    CASE at = "call" -> "idle"
      [] at = "writing" -> "wrote"
      [] at = "closing" -> "closed"
      [] at = "copying" -> IF err = Nil THEN "read" ELSE "copied"
      [] at = "finishing" -> "end"
      [] OTHER -> at

\* MUTANT of Lock: the mutex is taken whoever holds it.
Lock_noWait(t, m) ==
    /\ fr[t].op = "none"
    /\ mu' = [mu EXCEPT ![m] = t]

\* mw.mu.Lock(): goroutine t, in no call, gets the free mutex of m.
Lock(t, m) ==
    /\ fr[t].op = "none"
    /\ mu[m] = Free
    /\ mu' = [mu EXCEPT ![m] = t]

\* mw.mu.Unlock() (deferred in Write and close) and the return to the caller
Unlock(t) ==
    /\ fr[t].op # "none"
    /\ mu[fr[t].m] = t
    /\ mu' = [mu EXCEPT ![fr[t].m] = Free]
    /\ fr' = [fr EXCEPT ![t] = [NoFrame EXCEPT !.n = fr[t].n, !.err = fr[t].err]]
    /\ pc' = [pc EXCEPT ![t] = AfterCall(pc[t], fr[t].err)]
    /\ UNCHANGED <<writers, sinks, nops, others>>

\* MUTANT of add_append: the writer is put in front.
add_append_front(ws, id) == <<id>> \o ws

\* mw.writers = append(mw.writers, writer)
add_append(ws, id) == Append(ws, id)

\* MUTANT of multiWriter_add: the new writer is handed what the first writer
\* of m got so far.
multiWriter_add_replay(t, m, k) ==
    /\ Lock(t, m)
    /\ sinks' = Append(sinks, IF writers[m] = <<>> THEN NewSink(k)
                              ELSE [NewSink(k) EXCEPT !.data = sinks[writers[m][1]].data,
                                                      !.nw = sinks[writers[m][1]].nw])
    /\ writers' = [writers EXCEPT ![m] = add_append(@, Len(sinks) + 1)]
    /\ fr' = [fr EXCEPT ![t] = [NoFrame EXCEPT !.op = "add", !.m = m, !.snap = Snap(m)]]

\* multiWriter.add(writer) on m, by goroutine t, with a new writer of kind k
multiWriter_add(t, m, k) ==
    /\ Lock(t, m)
    /\ sinks' = Append(sinks, NewSink(k))
    /\ writers' = [writers EXCEPT ![m] = add_append(@, Len(sinks) + 1)]
    /\ fr' = [fr EXCEPT ![t] = [NoFrame EXCEPT !.op = "add", !.m = m, !.snap = Snap(m)]]

\* MUTANT of Write_check: a writer's error does not end the loop.
Write_check_goOn(r, p) ==
    IF r.err = Nil /\ r.n # Len(p) THEN [stop |-> TRUE, n |-> r.n, err |-> ErrShortWrite]
    ELSE [stop |-> FALSE, n |-> r.n, err |-> r.err]

\* MUTANT of Write_check: a short count is not looked at.
Write_check_noShort(r, p) ==
    IF r.err # Nil THEN [stop |-> TRUE, n |-> r.n, err |-> r.err]
    ELSE [stop |-> FALSE, n |-> r.n, err |-> Nil]

\* What Write does with the (n, err) of one writer's Write: return it when err
\* is set, return ErrShortWrite when n # len(p), else go on.
Write_check(r, p) ==
    IF r.err # Nil THEN [stop |-> TRUE, n |-> r.n, err |-> r.err]
    ELSE IF r.n # Len(p) THEN [stop |-> TRUE, n |-> r.n, err |-> ErrShortWrite]
    ELSE [stop |-> FALSE, n |-> r.n, err |-> Nil]

\* What Write returns after the loop.
Write_done(p) == [n |-> Len(p), err |-> Nil]

\* for _, writer := range mw.writers { n, err = writer.Write(p) ... } from
\* element i on: the sinks afterwards, the sinks invoked, and what Write returns.
RECURSIVE Write_loop(_, _, _, _, _)
Write_loop(ws, i, p, sk, log) ==
    IF i > Len(ws)
    THEN [sinks |-> sk, log |-> log, n |-> Write_done(p).n, err |-> Write_done(p).err]
    ELSE LET id == ws[i]
             r == sink_Write(sk[id].kind, p)
             c == Write_check(r, p)
             sk2 == [sk EXCEPT ![id].data = @ \o Accepted(r.n, p), ![id].nw = @ + 1]
         IN IF c.stop
            THEN [sinks |-> sk2, log |-> Append(log, id), n |-> c.n, err |-> c.err]
            ELSE Write_loop(ws, i + 1, p, sk2, Append(log, id))

\* multiWriter.Write(p) on m, by goroutine t
multiWriter_Write(t, m, p) ==
    LET r == Write_loop(writers[m], 1, p, sinks, <<>>) IN
    /\ Lock(t, m)
    /\ sinks' = r.sinks
    /\ fr' = [fr EXCEPT ![t] = [op |-> "Write", m |-> m, p |-> p, n |-> r.n,
                                err |-> r.err, log |-> r.log, snap |-> Snap(m)]]
    /\ UNCHANGED writers

\* MUTANT of close_break: close goes on after a failed Close.
close_break_never(err) == FALSE

\* Whether close leaves its loop after a closer returned err.
close_break(err) == err # Nil

\* for _, writer := range mw.writers { if closer, ok := ... } from element i on,
\* err being the named result so far.
RECURSIVE close_loop(_, _, _, _, _)
close_loop(ws, i, sk, log, err) ==
    IF i > Len(ws)
    THEN [sinks |-> sk, log |-> log, err |-> err]
    ELSE LET id == ws[i] IN
         IF IsCloser(sk[id].kind)
         THEN LET e == sink_Close(sk[id].kind)
                  sk2 == [sk EXCEPT ![id].nc = @ + 1]
              IN IF close_break(e)
                 THEN [sinks |-> sk2, log |-> Append(log, id), err |-> e]
                 ELSE close_loop(ws, i + 1, sk2, Append(log, id), e)
         ELSE close_loop(ws, i + 1, sk, log, err)

\* multiWriter.close() on m, by goroutine t
multiWriter_close(t, m) ==
    LET r == close_loop(writers[m], 1, sinks, <<>>, Nil) IN
    /\ Lock(t, m)
    /\ sinks' = r.sinks
    /\ fr' = [fr EXCEPT ![t] = [op |-> "close", m |-> m, p |-> <<>>, n |-> 0,
                                err |-> r.err, log |-> r.log, snap |-> Snap(m)]]
    /\ UNCHANGED writers

\* --------------------------------------------- clients of a bare multiWriter
\* mw.add(writer)
MW_add(t) ==
    /\ pc[t] = "idle"
    /\ Len(sinks) < MaxSinks
    /\ \E k \in Kinds : multiWriter_add(t, "out", k)
    /\ pc' = [pc EXCEPT ![t] = "call"]
    /\ UNCHANGED <<nops, others>>

\* mw.Write(p)
MW_Write(t) ==
    /\ pc[t] = "idle"
    /\ nops < MaxOps
    /\ \E p \in Bufs : multiWriter_Write(t, "out", p)
    /\ pc' = [pc EXCEPT ![t] = "call"]
    /\ nops' = nops + 1
    /\ UNCHANGED others

\* multiWriter.Close: return mw.close()
Close(t) ==
    /\ pc[t] = "idle"
    /\ nops < MaxOps
    /\ multiWriter_close(t, "out")
    /\ pc' = [pc EXCEPT ![t] = "call"]
    /\ nops' = nops + 1
    /\ UNCHANGED others

\* the zero value of the multiWriters; no call made, no goroutine started
InitCommon ==
    /\ writers = [m \in Streams |-> <<>>]
    /\ sinks = <<>>
    /\ mu = [m \in Streams |-> Free]
    /\ fr = [t \in Threads |-> NoFrame]
    /\ pc = [t \in Threads |-> IF t \in Clients THEN "idle" ELSE "off"]
    /\ nops = 0
    /\ wg = 0
    /\ ret = [op |-> "none", err |-> Nil]
    /\ starts = [p \in ProcIds |-> "none"]
    /\ atStart = [m \in Streams |-> 0]
    /\ waits = [p \in ProcIds |-> FALSE]

NoTP == [stdout |-> <<>>, stderr |-> <<>>, startErr |-> Nil, waitErr |-> Nil, killErr |-> Nil]
NoCmd == [path |-> "", args |-> <<>>]
\* calls (the argument lists of the AppendArgs calls so far) and pre (how
\* many of them came before Start) are history, read by the properties only.
NoProc == [made |-> FALSE, path |-> "", cmdArgs |-> <<>>, args |-> <<>>,
           calls |-> <<>>, pre |-> 0]
\* No exec.Cmd yet; prog is what the program run will write to its two streams.
NewOS(prog) ==
    [state |-> "none", reaped |-> FALSE, spawned |-> FALSE, argv |-> <<>>,
     exitErr |-> Nil, prog |-> prog, rerr |-> [m \in MW |-> Nil],
     todo |-> [m \in MW |-> <<>>], buf |-> [m \in MW |-> <<>>],
     wrote |-> [m \in MW |-> <<>>], got |-> [m \in MW |-> <<>>],
     rd |-> [m \in MW |-> "none"], pipe |-> [m \in MW |-> "none"]]
NoOS == NewOS([m \in MW |-> <<>>])

\* mw := &multiWriter{}
InitMW ==
    /\ InitCommon
    /\ tp = NoTP
    /\ cmdv = NoCmd
    /\ proc = [p \in ProcIds |-> NoProc]
    /\ osps = [p \in ProcIds |-> NoOS]

NextMW ==
    \E t \in Clients :
        \/ MW_add(t)
        \/ MW_Write(t)
        \/ Close(t)
        \/ Unlock(t)

SpecMW == InitMW /\ [][NextMW]_vars

\* ------------------------------------------------------------ testProcess
StartErrs == {Nil, "startErr"}      \* TestCmd.StartErr
WaitErrs == {Nil, "waitErr"}        \* TestCmd.WaitErr
KillErrs == {Nil, "killErr"}        \* TestCmd.KillErr
Drains == {"gout", "gerr"}          \* the two goroutines Start launches
\* The process goroutine t belongs to, the stream it copies, and the
\* multiWriter it writes to.
ProcOf(t) == IF t \in {"gout2", "gerr2"} THEN 2 ELSE Main
PipeOf(t) == IF t \in {"gout", "gout2"} THEN "out" ELSE "err"
StreamOf(t) == Stream(ProcOf(t), PipeOf(t))
\* tp.stdout for stdoutWriter, tp.stderr for stderrWriter
Bytes(m) == IF m = "out" THEN tp.stdout ELSE tp.stderr

\* TestCmd.Process(): the testProcess takes the TestCmd's five fields
InitTP ==
    /\ InitCommon
    /\ tp \in [stdout : {<<>>, OutBytes(MaxLen)},
               stderr : {<<>>, ErrBytes(MaxLen)},
               startErr : StartErrs, waitErr : WaitErrs, killErr : KillErrs]
    /\ cmdv = NoCmd
    /\ proc = [p \in ProcIds |-> NoProc]
    /\ osps = [p \in ProcIds |-> NoOS]

\* testProcess.Stdout(writer): tp.stdoutWriter.add(writer)
testProcess_Stdout ==
    /\ pc["caller"] = "idle"
    /\ Len(sinks) < MaxRegs
    /\ \E k \in ProcKinds : multiWriter_add("caller", "out", k)
    /\ pc' = [pc EXCEPT !["caller"] = "call"]
    /\ UNCHANGED <<nops, others>>

\* testProcess.Stderr(writer): tp.stderrWriter.add(writer)
testProcess_Stderr ==
    /\ pc["caller"] = "idle"
    /\ Len(sinks) < MaxRegs
    /\ \E k \in ProcKinds : multiWriter_add("caller", "err", k)
    /\ pc' = [pc EXCEPT !["caller"] = "call"]
    /\ UNCHANGED <<nops, others>>

\* testProcess.AppendArgs: empty body
testProcess_AppendArgs ==
    /\ pc["caller"] = "idle"
    /\ UNCHANGED vars

\* MUTANT of Start_launches: the goroutines are launched whatever startErr is.
Start_launches_always(c) == TRUE

\* if tp.startErr == nil
Start_launches(c) == c.startErr = Nil

\* return tp.startErr
Start_result(c) == c.startErr

\* tp.wg.Add(2)
WgAdd == 2

\* testProcess.Start, called once: a process is not started twice
testProcess_Start ==
    /\ pc["caller"] = "idle"
    /\ started = "none"
    /\ IF Start_launches(tp)
         THEN /\ wg' = wg + WgAdd
              /\ pc' = [pc EXCEPT !["gout"] = "begin", !["gerr"] = "begin"]
         ELSE UNCHANGED <<wg, pc>>
    /\ starts' = [starts EXCEPT ![Main] = Start_result(tp)]
    /\ ret' = [op |-> "Start", err |-> Start_result(tp)]
    /\ atStart' = [m \in Streams |-> IF m \in MW THEN Len(writers[m]) ELSE atStart[m]]
    /\ UNCHANGED <<writers, sinks, mu, fr, nops, tp, waits, osVars>>

\* if len(tp.stdout) > 0 { tp.stdoutWriter.Write(tp.stdout) }, and the same
\* for stderr; what Write returns is dropped
go_Write(t) ==
    /\ pc[t] = "begin"
    /\ IF Len(Bytes(StreamOf(t))) > 0
         THEN /\ multiWriter_Write(t, StreamOf(t), Bytes(StreamOf(t)))
              /\ pc' = [pc EXCEPT ![t] = "writing"]
         ELSE /\ pc' = [pc EXCEPT ![t] = "wrote"]
              /\ UNCHANGED <<writers, sinks, mu, fr>>
    /\ UNCHANGED <<nops, others>>

\* tp.stdoutWriter.Close() / tp.stderrWriter.Close()
go_Close(t) ==
    /\ pc[t] = "wrote"
    /\ multiWriter_close(t, StreamOf(t))
    /\ pc' = [pc EXCEPT ![t] = "closing"]
    /\ UNCHANGED <<nops, others>>

\* tp.wg.Done()
go_Done(t) ==
    /\ pc[t] = "closed"
    /\ wg' = wg - 1
    /\ pc' = [pc EXCEPT ![t] = "end"]
    /\ UNCHANGED <<writers, sinks, mu, fr, nops, tp, callVars, osVars>>

\* MUTANT of testProcess_Kill: Kill ends the goroutines that have not written yet.
testProcess_Kill_stops ==
    /\ pc["caller"] = "idle"
    /\ ret' = [op |-> "Kill", err |-> tp.killErr]
    /\ pc' = [t \in Threads |-> IF pc[t] = "begin" THEN "end" ELSE pc[t]]
    /\ UNCHANGED <<writers, sinks, mu, fr, nops, tpVars, starts, atStart, waits, osVars>>

\* testProcess.Kill
testProcess_Kill ==
    /\ pc["caller"] = "idle"
    /\ ret' = [op |-> "Kill", err |-> tp.killErr]
    /\ UNCHANGED <<writers, sinks, mu, fr, pc, nops, tpVars, starts, atStart, waits, osVars>>

\* MUTANT of Wait_ready: Wait does not block.
Wait_ready_always(n) == TRUE

\* tp.wg.Wait() returns when the counter is zero
Wait_ready(n) == n = 0

\* MUTANT of Wait_result: Wait returns the start error.
Wait_result_start(c) == c.startErr

\* return tp.waitErr
Wait_result(c) == c.waitErr

\* testProcess.Wait: blocked until tp.wg.Wait() returns
testProcess_Wait ==
    /\ pc["caller"] = "idle"
    /\ Wait_ready(wg)
    /\ ret' = [op |-> "Wait", err |-> Wait_result(tp)]
    /\ waits' = [waits EXCEPT ![Main] = (waited \/ started = Nil)]
    /\ UNCHANGED <<writers, sinks, mu, fr, pc, nops, tpVars, starts, atStart, osVars>>

NextTP ==
    \/ testProcess_Stdout
    \/ testProcess_Stderr
    \/ testProcess_AppendArgs
    \/ testProcess_Start
    \/ testProcess_Kill
    \/ testProcess_Wait
    \/ \E t \in Drains : go_Write(t) \/ go_Close(t) \/ go_Done(t)
    \/ \E t \in Threads : Unlock(t)

SpecTP == InitTP /\ [][NextTP]_vars

\* A TestCmd with no start error and no kill error.
InitLive ==
    /\ InitCommon
    /\ tp \in [stdout : {<<>>, OutBytes(MaxLen)}, stderr : {<<>>, ErrBytes(MaxLen)},
               startErr : {Nil}, waitErr : WaitErrs, killErr : {Nil}]
    /\ cmdv = NoCmd
    /\ proc = [p \in ProcIds |-> NoProc]
    /\ osps = [p \in ProcIds |-> NoOS]

\* proc.Stdout(writer) and proc.Stderr(writer) before proc.Start()
Live_Stdout == started = "none" /\ testProcess_Stdout
Live_Stderr == started = "none" /\ testProcess_Stderr

\* A testProcess that gets writers, is started and is waited for.
NextLive ==
    \/ Live_Stdout
    \/ Live_Stderr
    \/ testProcess_Start
    \/ testProcess_Wait
    \/ \E t \in Drains : go_Write(t) \/ go_Close(t) \/ go_Done(t)
    \/ \E t \in Threads : Unlock(t)

\* The goroutines Start launched run on, a goroutine holding a lock reaches its
\* Unlock, and the caller calls Wait.
FairTP ==
    /\ InitLive /\ [][NextLive]_vars
    /\ \A t \in Drains : WF_vars(go_Write(t)) /\ WF_vars(go_Close(t)) /\ WF_vars(go_Done(t))
    /\ \A t \in Threads : WF_vars(Unlock(t))
    /\ WF_vars(testProcess_Wait)

\* -------------------------------------------------------- cmd and process
\* The exec.Cmd behind a process and the OS process it starts are package
\* os/exec and the kernel.  osp holds what the code sees of them:
\*   state    "none" (no exec.Cmd), "new" (built, cmd.Process is nil),
\*            "running", "exited"
\*   spawned  cmd.Start has been called;  argv: the cmd.Args it was called with
\*   reaped   cmd.Wait has returned the exit of the process
\*   todo[m]  bytes the program has still to write to stream m
\*   wrote[m] bytes it has written;  buf[m]: those of them waiting in the pipe
\*   rd[m]    the read end StdoutPipe / StderrPipe returned: "none", "open",
\*            "closed"
\*   got[m]   bytes io.Copy has read and not yet passed to Write
\*   rerr[m]  the error the Read that ended io.Copy returned (nil at EOF)
\*   pipe[m]  the error StdoutPipe / StderrPipe returned, "none" when Start
\*            has not called it
\* os/exec closes the read ends of the pipes when cmd.Start fails and when
\* cmd.Wait has seen the process exit; a Read of a closed read end fails, and
\* the bytes still in the pipe are gone.
Paths == {"a", "b"}
ArgLists == {<<>>, <<"-o">>, <<"-t", "--">>}
\* what StderrPipe and StdoutPipe return
PipeErrs(m) == {Nil, IF m = "err" THEN "stderrPipeErr" ELSE "stdoutPipeErr"}
SpawnErrs == {Nil, "spawnErr"}      \* what cmd.Start returns
ExitErrs == {Nil, "exitErr"}        \* what cmd.Wait returns for the exit status
Killed == "killed"                  \* what cmd.Wait returns for a killed process
ProcessDone == "processDone"        \* os.ErrProcessDone
ErrClosed == "ErrClosed"            \* Read of a closed pipe
Progs == [out : {<<>>, OutBytes(MaxLen)}, err : {<<>>, ErrBytes(MaxLen)}]

\* New(path, args...)
New(path, args) == [path |-> path, args |-> args]

\* exec.Command(name, arg...).Args is the name followed by the arguments
exec_Command(name, arg) == <<name>> \o arg

\* cmd.SetPath(path)
cmd_SetPath ==
    /\ pc["caller"] = "idle"
    /\ \E p \in Paths : cmdv' = [cmdv EXCEPT !.path = p]
    /\ UNCHANGED <<writers, sinks, mu, fr, pc, nops, tpVars, callVars, proc, osps>>

\* cmd.Process(): &process{cmd: exec.Command(cmd.path, cmd.args...)}
cmd_Process(p) ==
    /\ pc["caller"] = "idle"
    /\ ~proc[p].made
    /\ proc' = [proc EXCEPT ![p] = [NoProc EXCEPT !.made = TRUE, !.path = cmdv.path,
                                        !.cmdArgs = exec_Command(cmdv.path, cmdv.args)]]
    /\ osps' = [osps EXCEPT ![p].state = "new"]
    /\ UNCHANGED <<writers, sinks, mu, fr, pc, nops, tpVars, callVars, cmdv>>

\* MUTANT of AppendArgs_append: the new arguments replace the pending ones.
AppendArgs_replace(old, new) == new

\* proc.args = append(proc.args, args...)
AppendArgs_append(old, new) == old \o new

\* The AppendArgs calls made so far on all processes.
ArgCalls == Len(proc[1].calls) + Len(proc[2].calls)

\* process.AppendArgs(args...) on process p
process_AppendArgs(p) ==
    /\ pc["caller"] = "idle"
    /\ proc[p].made
    /\ ArgCalls < MaxArgs
    /\ \E a \in ArgLists :
           proc' = [proc EXCEPT ![p].args = AppendArgs_append(@, a),
                                ![p].calls = Append(@, a)]
    /\ UNCHANGED <<writers, sinks, mu, fr, pc, nops, tpVars, callVars, cmdv, osps>>

\* MUTANT of process_Stdout: the processes of a Command share the stdout
\* multiWriter of the first.
process_Stdout_shared(p) ==
    /\ pc["caller"] = "idle"
    /\ proc[p].made
    /\ Len(sinks) < MaxRegs
    /\ \E k \in RealKinds("out") : multiWriter_add("caller", "out", k)
    /\ pc' = [pc EXCEPT !["caller"] = "call"]
    /\ UNCHANGED <<nops, others>>

\* process.Stdout(writer) on process p: proc.stdout.add(writer)
process_Stdout(p) ==
    /\ pc["caller"] = "idle"
    /\ proc[p].made
    /\ Len(sinks) < MaxRegs
    /\ \E k \in RealKinds("out") : multiWriter_add("caller", Stream(p, "out"), k)
    /\ pc' = [pc EXCEPT !["caller"] = "call"]
    /\ UNCHANGED <<nops, others>>

\* process.Stderr(writer) on process p: proc.stderr.add(writer)
process_Stderr(p) ==
    /\ pc["caller"] = "idle"
    /\ proc[p].made
    /\ Len(sinks) < MaxRegs
    /\ \E k \in RealKinds("err") : multiWriter_add("caller", Stream(p, "err"), k)
    /\ pc' = [pc EXCEPT !["caller"] = "call"]
    /\ UNCHANGED <<nops, others>>

\* proc.cmd.Args = append(proc.cmd.Args, proc.args...)
Start_args(cmdArgs, args) == cmdArgs \o args

\* MUTANT of Start_drains: Start goes on after a failed StderrPipe.
Start_drains_always(pe) == TRUE

\* if err == nil, after StderrPipe: the stderr goroutine and StdoutPipe
Start_drains(pe) == pe = Nil

\* MUTANT of Start_spawns: Start calls cmd.Start whatever the pipes returned.
Start_spawns_always(err) == TRUE

\* if err == nil { err = proc.cmd.Start() }
Start_spawns(err) == err = Nil

\* process.Start on process p, called once.  pe, po and se are what
\* StderrPipe, StdoutPipe and cmd.Start return when they are called.
process_Start(p) ==
    /\ pc["caller"] = "idle"
    /\ proc[p].made
    /\ starts[p] = "none"
    /\ \E pe \in PipeErrs("err"), po \in PipeErrs("out"), se \in SpawnErrs :
        LET args2 == Start_args(proc[p].cmdArgs, proc[p].args)
            errDrain == Start_drains(pe)         \* go proc.stderr.copy(stderr)
            outDrain == errDrain /\ po = Nil     \* go proc.stdout.copy(stdout)
            err1 == IF errDrain THEN po ELSE pe
            spawn == Start_spawns(err1)
            err == IF spawn THEN se ELSE err1
            run == spawn /\ se = Nil
            pipes == [m \in MW |->
                        IF (m = "err" /\ errDrain) \/ (m = "out" /\ outDrain)
                        THEN (IF spawn /\ se # Nil THEN "closed" ELSE "open")
                        ELSE "none"]
        IN /\ proc' = [proc EXCEPT ![p].cmdArgs = args2,
                                   ![p].pre = Len(proc[p].calls)]
           /\ pc' = [pc EXCEPT ![Drain(p, "err")] = IF errDrain THEN "read" ELSE @,
                               ![Drain(p, "out")] = IF outDrain THEN "read" ELSE @]
           /\ osps' = [osps EXCEPT ![p].rd = pipes,
                                   ![p].pipe = [m \in MW |-> IF m = "err" THEN pe
                                                             ELSE IF errDrain THEN po ELSE "none"],
                                   ![p].spawned = spawn,
                                   ![p].argv = IF spawn THEN args2 ELSE @,
                                   ![p].state = IF run THEN "running" ELSE @,
                                   ![p].todo = IF run THEN [m \in MW |-> osps[p].prog[m]] ELSE @]
           /\ starts' = [starts EXCEPT ![p] = err]
           /\ ret' = [op |-> "Start", err |-> err]
    /\ atStart' = [m \in Streams |->
                      IF \E r \in MW : m = Stream(p, r) THEN Len(writers[m]) ELSE atStart[m]]
    /\ UNCHANGED <<writers, sinks, mu, fr, nops, tpVars, waits, cmdv>>

\* io.Copy(mw, reader) inside copy: one Read.  It fails when the read end is
\* closed, returns the bytes in the pipe when there are any, returns io.EOF
\* when there are none and the process has exited, and blocks otherwise.
copy_Read(t) ==
    LET p == ProcOf(t)
        m == PipeOf(t)
    IN
    /\ pc[t] = "read"
    /\ \/ /\ osps[p].rd[m] = "closed"
          /\ osps' = [osps EXCEPT ![p].rerr[m] = ErrClosed]
          /\ pc' = [pc EXCEPT ![t] = "copied"]
       \/ /\ osps[p].rd[m] = "open"
          /\ osps[p].buf[m] # <<>>
          /\ osps' = [osps EXCEPT ![p].got[m] = osps[p].buf[m], ![p].buf[m] = <<>>]
          /\ pc' = [pc EXCEPT ![t] = "got"]
       \/ /\ osps[p].rd[m] = "open"
          /\ osps[p].buf[m] = <<>>
          /\ osps[p].state = "exited"
          /\ osps' = osps
          /\ pc' = [pc EXCEPT ![t] = "copied"]
    /\ UNCHANGED <<writers, sinks, mu, fr, nops, tpVars, callVars, cmdv, proc>>

\* io.Copy inside copy: mw.Write of the bytes read
copy_Write(t) ==
    LET p == ProcOf(t)
        m == PipeOf(t)
    IN
    /\ pc[t] = "got"
    /\ multiWriter_Write(t, StreamOf(t), osps[p].got[m])
    /\ osps' = [osps EXCEPT ![p].got[m] = <<>>]
    /\ pc' = [pc EXCEPT ![t] = "copying"]
    /\ UNCHANGED <<nops, tpVars, callVars, cmdv, proc>>

\* copy: return mw.close(), whatever io.Copy returned
copy_close(t) ==
    /\ pc[t] = "copied"
    /\ multiWriter_close(t, StreamOf(t))
    /\ pc' = [pc EXCEPT ![t] = "finishing"]
    /\ UNCHANGED <<nops, others>>

\* the program of process p writes the next byte of stream m
os_write(p, m) ==
    /\ osps[p].state = "running"
    /\ osps[p].todo[m] # <<>>
    /\ osps' = [osps EXCEPT ![p].todo[m] = Tail(@),
                            ![p].buf[m] = Append(@, Head(osps[p].todo[m])),
                            ![p].wrote[m] = Append(@, Head(osps[p].todo[m]))]
    /\ UNCHANGED <<writers, sinks, mu, fr, pc, nops, tpVars, callVars, cmdv, proc>>

\* the program of process p exits, having written all it writes
os_exit(p) ==
    /\ osps[p].state = "running"
    /\ \A m \in MW : osps[p].todo[m] = <<>>
    /\ \E e \in ExitErrs : osps' = [osps EXCEPT ![p].state = "exited", ![p].exitErr = e]
    /\ UNCHANGED <<writers, sinks, mu, fr, pc, nops, tpVars, callVars, cmdv, proc>>

\* MUTANT of Wait_closes: cmd.Wait leaves the pipes open.
Wait_closes_nothing(rd) == rd

\* cmd.Wait closes the read ends of the pipes
Wait_closes(rd) == [m \in MW |-> IF rd[m] = "open" THEN "closed" ELSE rd[m]]

\* MUTANT of process_Wait: Wait also waits for the copy goroutines to end.
process_Wait_joins(p) ==
    /\ pc["caller"] = "idle"
    /\ starts[p] = Nil
    /\ osps[p].state = "exited" /\ ~osps[p].reaped
    /\ \A m \in MW : pc[Drain(p, m)] \in {"off", "end"}
    /\ osps' = [osps EXCEPT ![p].reaped = TRUE]
    /\ ret' = [op |-> "Wait", err |-> osps[p].exitErr]
    /\ waits' = [waits EXCEPT ![p] = TRUE]
    /\ UNCHANGED <<writers, sinks, mu, fr, pc, nops, tpVars, starts, atStart, cmdv, proc>>

\* process.Wait on process p: return proc.cmd.Wait(), called once, after a
\* Start that returned nil.  It blocks until the process has exited, closes
\* the read ends of the pipes and returns the exit error.
process_Wait(p) ==
    /\ pc["caller"] = "idle"
    /\ starts[p] = Nil
    /\ osps[p].state = "exited" /\ ~osps[p].reaped
    /\ osps' = [osps EXCEPT ![p].reaped = TRUE, ![p].rd = Wait_closes(@)]
    /\ ret' = [op |-> "Wait", err |-> osps[p].exitErr]
    /\ waits' = [waits EXCEPT ![p] = TRUE]
    /\ UNCHANGED <<writers, sinks, mu, fr, pc, nops, tpVars, starts, atStart, cmdv, proc>>

\* process.Kill on process p: return proc.cmd.Process.Kill(), called after a
\* Start that returned nil (cmd.Process is nil before).  A running process
\* ends without writing what it had still to write; one that Wait has reaped
\* gives os.ErrProcessDone.
process_Kill(p) ==
    /\ pc["caller"] = "idle"
    /\ starts[p] = Nil
    /\ \/ /\ osps[p].state = "running"
          /\ osps' = [osps EXCEPT ![p].state = "exited", ![p].exitErr = Killed,
                                  ![p].todo = [m \in MW |-> <<>>]]
          /\ ret' = [op |-> "Kill", err |-> Nil]
       \/ /\ osps[p].state = "exited"
          /\ ret' = [op |-> "Kill", err |-> IF osps[p].reaped THEN ProcessDone ELSE Nil]
          /\ UNCHANGED osps
    /\ UNCHANGED <<writers, sinks, mu, fr, pc, nops, tpVars, starts, atStart, waits, cmdv, proc>>

\* cmd := New("a"); the program and what it writes are given
InitProc ==
    /\ InitCommon
    /\ tp = NoTP
    /\ cmdv = New("a", <<>>)
    /\ proc = [p \in ProcIds |-> NoProc]
    /\ osps \in {[p \in ProcIds |-> NewOS(prog)] : prog \in Progs}

\* A process with writers on its two streams, running to its exit.
NextProc ==
    \/ cmd_Process(Main)
    \/ process_Stdout(Main)
    \/ process_Stderr(Main)
    \/ process_Start(Main)
    \/ process_Wait(Main)
    \/ \E t \in Drains : copy_Read(t) \/ copy_Write(t) \/ copy_close(t)
    \/ \E m \in MW : os_write(Main, m)
    \/ os_exit(Main)
    \/ \E t \in Threads : Unlock(t)

SpecProc == InitProc /\ [][NextProc]_vars

\* cmd := New(path, args...); the program writes nothing
InitArgs ==
    /\ InitCommon
    /\ tp = NoTP
    /\ cmdv \in {New(p, a) : p \in Paths, a \in ArgLists}
    /\ proc = [p \in ProcIds |-> NoProc]
    /\ osps = [p \in ProcIds |-> NoOS]

\* A command, its path, and the arguments of a process made from it.
NextArgs ==
    \/ cmd_SetPath
    \/ cmd_Process(Main)
    \/ process_AppendArgs(Main)
    \/ process_Start(Main)
    \/ process_Wait(Main)
    \/ process_Kill(Main)
    \/ \E t \in Drains : copy_Read(t) \/ copy_close(t)
    \/ os_exit(Main)
    \/ \E t \in Threads : Unlock(t)

SpecArgs == InitArgs /\ [][NextArgs]_vars

\* cmd := New("a", "-o"); the program writes a byte on its standard output
InitFactory ==
    /\ InitCommon
    /\ tp = NoTP
    /\ cmdv = New("a", <<"-o">>)
    /\ proc = [p \in ProcIds |-> NoProc]
    /\ osps = [p \in ProcIds |-> NewOS([out |-> OutBytes(1), err |-> <<>>])]

\* The arguments the caller appends to process p.
FactoryArgs(p) == IF p = Main THEN <<"-t", "--">> ELSE <<"-o">>

\* cmd.Process() for Main, later cmd.SetPath("b"), later cmd.Process() for
\* the second process
Factory_SetPath == proc[Main].made /\ cmdv.path = "a" /\ cmd_SetPath /\ cmdv'.path = "b"
Factory_Process(p) == (p # Main => cmdv.path = "b") /\ cmd_Process(p)

\* proc.AppendArgs(args...), the first call on the process
Factory_AppendArgs(p) ==
    /\ proc[p].calls = <<>>
    /\ writers[Stream(p, "out")] = <<>>
    /\ starts[p] = "none"
    /\ process_AppendArgs(p)
    /\ proc'[p].args = FactoryArgs(p)

\* proc.Stdout(writer) with a closeWriter, the second call
Factory_Stdout(p) ==
    /\ proc[p].calls # <<>>
    /\ writers[Stream(p, "out")] = <<>>
    /\ starts[p] = "none"
    /\ process_Stdout(p)
    /\ sinks'[Len(sinks')].kind = closeWriter

\* proc.Start(), the third call
Factory_Start(p) == writers[Stream(p, "out")] # <<>> /\ process_Start(p)

\* proc.Kill() while the process runs
Factory_Kill(p) == osps[p].state = "running" /\ process_Kill(p)

\* Two processes made from one Command, whose path is set once.  The caller
\* gives each its arguments and a writer on stdout, starts it, waits for it
\* and kills it, in any order between the two, while the goroutines each
\* Start launched copy what the program writes and close.
NextFactory ==
    \/ Factory_SetPath
    \/ \E p \in ProcIds :
           \/ Factory_Process(p)
           \/ Factory_AppendArgs(p)
           \/ Factory_Stdout(p)
           \/ Factory_Start(p)
           \/ process_Wait(p)
           \/ Factory_Kill(p)
           \/ \E m \in MW : os_write(p, m)
           \/ os_exit(p)
    \/ \E t \in Threads \ Clients : copy_Read(t) \/ copy_Write(t) \/ copy_close(t)
    \/ \E t \in Threads : Unlock(t)

SpecFactory == InitFactory /\ [][NextFactory]_vars

\* ------------------------------------------- a Process of either Command
\* The Command is a TestCmd: there is no cmd struct, and Process() gives a
\* testProcess.
IsTest == cmdv = NoCmd

\* A process made from a cmd: the steps of process.
Both_process == ~IsTest /\ NextProc

\* A testProcess made from a TestCmd with no start error: it gets writers,
\* before Start and after, is started and is waited for.
Both_testProcess ==
    /\ IsTest
    /\ \/ testProcess_Stdout
       \/ testProcess_Stderr
       \/ testProcess_Start
       \/ testProcess_Wait
       \/ \E t \in Drains : go_Write(t) \/ go_Close(t) \/ go_Done(t)
       \/ \E t \in Threads : Unlock(t)

\* A Process made from a cmd or from a TestCmd.
InitBoth == InitProc \/ InitLive

NextBoth == Both_process \/ Both_testProcess

SpecBoth == InitBoth /\ [][NextBoth]_vars

\* ---------------------------------- a multiWriter shared by two goroutines
\* What process.Stdout and the copy goroutine do to proc.stdout, without the
\* process: the caller registers writers while the goroutine forwards the
\* chunks io.Copy reads, one Write per chunk, and closes.
Writer == "gout"

\* The i-th chunk io.Copy forwards.
Chunk(i) == <<i>>

\* io.Copy: mw.Write of the next chunk
Shared_Write ==
    /\ pc[Writer] = "idle"
    /\ nops < MaxOps
    /\ multiWriter_Write(Writer, "out", Chunk(nops + 1))
    /\ pc' = [pc EXCEPT ![Writer] = "call"]
    /\ nops' = nops + 1
    /\ UNCHANGED others

InitShared ==
    /\ writers = [m \in Streams |-> <<>>]
    /\ sinks = <<>>
    /\ mu = [m \in Streams |-> Free]
    /\ fr = [t \in Threads |-> NoFrame]
    /\ pc = [t \in Threads |-> IF t \in {"caller", Writer} THEN "idle" ELSE "off"]
    /\ nops = 0
    /\ wg = 0
    /\ ret = [op |-> "none", err |-> Nil]
    /\ starts = [p \in ProcIds |-> "none"]
    /\ atStart = [m \in Streams |-> 0]
    /\ waits = [p \in ProcIds |-> FALSE]
    /\ tp = NoTP
    /\ cmdv = NoCmd
    /\ proc = [p \in ProcIds |-> NoProc]
    /\ osps = [p \in ProcIds |-> NoOS]

NextShared ==
    \/ MW_add("caller")
    \/ Shared_Write
    \/ Close(Writer)
    \/ \E t \in {"caller", Writer} : Unlock(t)

SpecShared == InitShared /\ [][NextShared]_vars

\* A goroutine that holds the lock goes on to its Unlock.
FairShared == SpecShared /\ \A t \in {"caller", Writer} : WF_vars(Unlock(t))

\* ------------------------------------------------------------ properties
\* A call of op by goroutine t has finished its loop and still holds the lock:
\* fr[t].n and fr[t].err are what it returns.
AtEnd(t, op) == fr[t].op = op

KindAt(m, j) == sinks[writers[m][j]].kind
Fails(m, j, p) == sink_Write(KindAt(m, j), p).err # Nil
Short(m, j, p) == /\ sink_Write(KindAt(m, j), p).err = Nil
                  /\ sink_Write(KindAt(m, j), p).n # Len(p)
\* The positions whose writer does not accept the whole of p.
Stops(m, p) == {j \in 1..Len(writers[m]) : Fails(m, j, p) \/ Short(m, j, p)}
First(S) == CHOOSE j \in S : \A i \in S : j <= i

\* Since the call took the lock, sink id got buffer f.p once, whole / got nothing.
GotOnce(f, id) == /\ sinks[id].data = f.snap[id].data \o f.p
                  /\ sinks[id].nw = f.snap[id].nw + 1
                  /\ sinks[id].nc = f.snap[id].nc
Untouched(f, id) == sinks[id] = f.snap[id]
ClosedOnce(f, id) == sinks[id] = [f.snap[id] EXCEPT !.nc = @ + 1]

\* C1: when the first writer that does not accept the buffer is one whose Write
\* returns an error, at position k, Write returns that error, the writers
\* before k have each got the whole buffer exactly once, in order, and the
\* writers after k have got no call.
C1_FirstErrorAborts ==
    \A t \in Threads :
        LET f == fr[t]
            m == f.m
        IN (AtEnd(t, "Write") /\ Stops(m, f.p) # {} /\ Fails(m, First(Stops(m, f.p)), f.p)) =>
               LET k == First(Stops(m, f.p)) IN
               /\ f.err = sink_Write(KindAt(m, k), f.p).err
               /\ f.err # Nil
               /\ f.log = SubSeq(writers[m], 1, k)
               /\ \A j \in 1..(k - 1) : GotOnce(f, writers[m][j])
               /\ \A j \in (k + 1)..Len(writers[m]) : Untouched(f, writers[m][j])

\* A Write of a non-empty buffer ended at a failing second writer of three.
C1_Witness ==
    \E t \in Threads :
        /\ AtEnd(t, "Write") /\ Len(fr[t].p) > 0
        /\ Len(writers[fr[t].m]) = 3
        /\ Stops(fr[t].m, fr[t].p) # {}
        /\ First(Stops(fr[t].m, fr[t].p)) = 2
        /\ Fails(fr[t].m, 2, fr[t].p)

\* C2: when the first writer that does not accept the buffer is one that takes
\* fewer bytes and reports no error, Write returns ErrShortWrite, which is
\* neither success nor the error of a writer, and no later writer gets a call.
C2_ShortWriteAborts ==
    \A t \in Threads :
        LET f == fr[t]
            m == f.m
        IN (AtEnd(t, "Write") /\ Stops(m, f.p) # {} /\ Short(m, First(Stops(m, f.p)), f.p)) =>
               LET k == First(Stops(m, f.p)) IN
               /\ f.err = ErrShortWrite
               /\ f.err # Nil
               /\ \A j \in 1..Len(writers[m]) : f.err # sink_Write(KindAt(m, j), f.p).err
               /\ f.log = SubSeq(writers[m], 1, k)
               /\ \A j \in (k + 1)..Len(writers[m]) : Untouched(f, writers[m][j])

\* A Write of a non-empty buffer ended at a short first writer with writers after it.
C2_Witness ==
    \E t \in Threads :
        /\ AtEnd(t, "Write") /\ Len(fr[t].p) > 0
        /\ Len(writers[fr[t].m]) >= 2
        /\ Short(fr[t].m, 1, fr[t].p)

\* The writers of every multiWriter only grow at the end.
AppendOnly ==
    \A m \in MW :
        /\ Len(writers[m]) <= Len(writers'[m])
        /\ SubSeq(writers'[m], 1, Len(writers[m])) = writers[m]

\* When every writer accepts the whole buffer (none registered included), each
\* gets it exactly once, in the order of registration, and Write returns
\* (len(p), nil).
AllAccept ==
    \A t \in Threads :
        LET f == fr[t]
            m == f.m
        IN (AtEnd(t, "Write") /\ Stops(m, f.p) = {}) =>
               /\ f.n = Len(f.p)
               /\ f.err = Nil
               /\ f.log = writers[m]
               /\ \A j \in 1..Len(writers[m]) : GotOnce(f, writers[m][j])

\* C3: a Write all of whose writers accept the buffer delivers it once to each,
\* in registration order, and returns the full length and no error; and the
\* writers of a multiWriter change only by an append at the end.
C3_FullDeliveryAppendOnly == []AllAccept /\ [][AppendOnly]_vars

\* A Write of a non-empty buffer to three accepting writers has ended.
C3_Witness ==
    \E t \in Threads :
        /\ AtEnd(t, "Write") /\ Len(fr[t].p) > 0
        /\ Len(writers[fr[t].m]) = 3
        /\ Stops(fr[t].m, fr[t].p) = {}

\* The positions of the closers, and of the closers whose Close fails.
Capable(m) == {j \in 1..Len(writers[m]) : IsCloser(KindAt(m, j))}
FailClose(m) == {j \in Capable(m) : sink_Close(KindAt(m, j)) # Nil}

\* C4: close calls Close on the closers only, in registration order, up to and
\* including the first one whose Close fails, and returns that error (nil when
\* none fails); later writers stay unclosed, writers without Close get no call.
C4_CloseCascade ==
    \A t \in Threads :
        LET f == fr[t]
            m == f.m
            last == IF FailClose(m) = {} THEN Len(writers[m]) ELSE First(FailClose(m))
            IsCap(id) == IsCloser(sinks[id].kind)
        IN AtEnd(t, "close") =>
               /\ f.err = IF FailClose(m) = {} THEN Nil
                          ELSE sink_Close(KindAt(m, First(FailClose(m))))
               /\ FailClose(m) # {} => f.err # Nil
               /\ f.log = SelectSeq(SubSeq(writers[m], 1, last), IsCap)
               /\ \A j \in 1..Len(writers[m]) :
                      IF j \in Capable(m) /\ j <= last
                      THEN ClosedOnce(f, writers[m][j])
                      ELSE Untouched(f, writers[m][j])

\* A close has ended at a failing second writer, after a writer without Close
\* and before a closer.
C4_Witness ==
    \E t \in Threads :
        /\ AtEnd(t, "close")
        /\ Len(writers[fr[t].m]) = 3
        /\ ~IsCloser(KindAt(fr[t].m, 1))
        /\ FailClose(fr[t].m) # {} /\ First(FailClose(fr[t].m)) = 2
        /\ IsCloser(KindAt(fr[t].m, 3))

\* The writers of m registered before Start all take the whole of m's bytes.
AcceptAll(m) ==
    \A j \in 1..atStart[m] :
        sink_Write(KindAt(m, j), Bytes(m)) = [n |-> Len(Bytes(m)), err |-> Nil]

\* C5: once a Wait called after a successful Start has returned, both
\* goroutines have ended, and on each stream whose writers registered before
\* Start accept every write, each of those writers holds exactly the stream's
\* configured bytes.
C5_WaitSeesAllBytes ==
    (waited /\ started = Nil) =>
        /\ \A t \in Drains : pc[t] = "end"
        /\ \A m \in MW :
               AcceptAll(m) =>
                   \A j \in 1..atStart[m] : sinks[writers[m][j]].data = Bytes(m)

\* Wait has returned after Start, with an accepting writer registered before
\* Start on each stream and bytes configured for both.
C5_Witness ==
    /\ waited /\ started = Nil
    /\ \A m \in MW : atStart[m] >= 1 /\ AcceptAll(m) /\ Len(Bytes(m)) > 0

\* C6: with a start error configured, Start returns it and launches no
\* goroutine: from then on the WaitGroup counter is zero, so that Wait does not
\* block, and no writer has got a byte, a Write or a Close.
C6_StartErrorLaunchesNothing ==
    (started # "none" /\ tp.startErr # Nil) =>
        /\ started = tp.startErr
        /\ ret.op = "Start" => ret.err = tp.startErr
        /\ \A t \in Drains : pc[t] = "off"
        /\ wg = 0
        /\ pc["caller"] = "idle" => ENABLED testProcess_Wait
        /\ \A id \in DOMAIN sinks :
               sinks[id].data = <<>> /\ sinks[id].nw = 0 /\ sinks[id].nc = 0

\* Start has returned the start error and a Wait after it has returned, with a
\* writer on each stream and bytes configured for both.
C6_Witness ==
    /\ started # "none" /\ started # Nil
    /\ ret.op = "Wait"
    /\ \A m \in MW : Len(writers[m]) >= 1 /\ Len(Bytes(m)) > 0

\* C7: with no start error configured Start returns nil, and a Wait after it
\* returns the configured wait error, and only when both goroutines have
\* written, closed and called Done.
C7_WaitReturnsWaitErr ==
    /\ (started # "none" /\ tp.startErr = Nil) => started = Nil
    /\ (ret.op = "Wait" /\ started = Nil) =>
           /\ ret.err = tp.waitErr
           /\ wg = 0
           /\ \A t \in Drains : pc[t] = "end" /\ fr[t].op = "none"

\* A Wait after a successful Start has returned the configured wait error,
\* the goroutines having written to a writer of each stream.
C7_Witness ==
    /\ ret.op = "Wait" /\ started = Nil
    /\ tp.waitErr # Nil /\ ret.err = tp.waitErr
    /\ \A m \in MW : Len(writers[m]) >= 1 /\ sinks[writers[m][1]].nw = 1

\* A step in which Kill returns changes nothing but the value returned.
KillChangesNothing ==
    (ret' # ret /\ ret'.op = "Kill") =>
        /\ ret'.err = tp.killErr
        /\ UNCHANGED <<writers, sinks, mu, fr, pc, nops, tp, wg, started, atStart, waited>>

\* C8: Kill returns the configured kill error whenever it is called, before
\* Start, while the goroutines run and after Wait, and it leaves the writers,
\* the goroutines and the WaitGroup as they are.
C8_KillReturnsKillErr ==
    /\ [](ret.op = "Kill" => ret.err = tp.killErr)
    /\ [][KillChangesNothing]_vars

\* Kill has returned the configured kill error while a goroutine is between
\* its launch and its end.
C8_Witness ==
    /\ ret.op = "Kill" /\ tp.killErr # Nil
    /\ \E t \in Drains : pc[t] \notin {"off", "end"}
    /\ \E t \in Drains : pc[t] = "end"

\* The arguments of a sequence of AppendArgs calls, one after the other.
RECURSIVE Flatten(_)
Flatten(calls) == IF calls = <<>> THEN <<>> ELSE Head(calls) \o Flatten(Tail(calls))

\* The AppendArgs calls made before Start.
BeforeStart == SubSeq(proc[Main].calls, 1, proc[Main].pre)

\* C9: the argument list cmd.Start is called with is the path the process was
\* made with, then the base arguments of the Command, then the arguments of
\* every AppendArgs call made before Start, in call order: none dropped, none
\* twice, none out of place, and none of a call made after Start.
C9_ArgsInCallOrder ==
    /\ started # "none" =>
           proc[Main].cmdArgs = <<proc[Main].path>> \o cmdv.args \o Flatten(BeforeStart)
    /\ osp.spawned =>
           /\ Head(osp.argv) = proc[Main].path
           /\ Tail(osp.argv) = cmdv.args \o Flatten(BeforeStart)

\* cmd.Start has been called for a Command with base arguments, after two
\* AppendArgs calls with different arguments and before a third.
C9_Witness ==
    /\ osp.spawned
    /\ cmdv.args # <<>>
    /\ proc[Main].pre = 2 /\ Len(proc[Main].calls) > proc[Main].pre
    /\ proc[Main].calls[1] # <<>> /\ proc[Main].calls[2] # <<>> /\ proc[Main].calls[1] # proc[Main].calls[2]
    /\ proc[Main].calls[3] # <<>>

\* Start and Wait have returned nil and both copy goroutines have ended.
RoundTripDone ==
    /\ started = Nil
    /\ ret = [op |-> "Wait", err |-> Nil]
    /\ \A t \in Drains : pc[t] = "end"

\* Every writer of m takes the whole of every Write.
AllOk(m) == \A j \in 1..Len(writers[m]) : KindAt(m, j).w = "ok"

\* C10: when Start and Wait have returned nil and both copy goroutines have
\* ended, each writer registered before Start on a stream whose writers accept
\* every write holds exactly the bytes the process wrote to that stream.
C10_RoundTrip ==
    RoundTripDone =>
        \A m \in MW :
            AllOk(m) =>
                \A j \in 1..atStart[m] : sinks[writers[m][j]].data = osp.wrote[m]

\* Start and Wait have returned nil and both copy goroutines have ended, the
\* one of stdout on a Read of the pipe Wait closed: the writer registered
\* before Start on stdout, the only one, has none of the bytes written.
C10_Witness ==
    /\ RoundTripDone
    /\ osp.rerr["out"] = ErrClosed
    /\ Len(writers["out"]) = 1 /\ atStart["out"] = 1 /\ AllOk("out")
    /\ osp.wrote["out"] # <<>>
    /\ sinks[writers["out"][1]].data = <<>>

\* Start has returned with StderrPipe having succeeded and StdoutPipe failed.
StdoutPipeFailed ==
    /\ started # "none"
    /\ osp.pipe["err"] = Nil
    /\ osp.pipe["out"] \notin {Nil, "none"}

\* C11 as stated: when StderrPipe succeeds and StdoutPipe fails, cmd.Start is
\* still called, only the stdout goroutine is not launched, and Start returns
\* what cmd.Start returned.
C11_SpawnsWithoutStdout ==
    StdoutPipeFailed =>
        /\ osp.spawned
        /\ pc["gerr"] # "off" /\ pc["gout"] = "off"
        /\ started \in SpawnErrs

\* C11: when StderrPipe succeeds and StdoutPipe fails, Start returns the error
\* of StdoutPipe and does not call cmd.Start, so that no process runs; the
\* stdout goroutine is not launched, and the stderr goroutine, launched before
\* StdoutPipe was called, stays in its first Read and touches no writer.
C11_StdoutPipeErrorStopsStart ==
    StdoutPipeFailed =>
        /\ started = osp.pipe["out"]
        /\ ~osp.spawned /\ osp.state = "new"
        /\ pc["gout"] = "off"
        /\ pc["gerr"] = "read" /\ ~ENABLED copy_Read("gerr")
        /\ \A id \in DOMAIN sinks : sinks[id].nw = 0 /\ sinks[id].nc = 0

\* Start has returned the error of StdoutPipe, with a writer on each stream
\* and a program that would write to both.
C11_Witness ==
    /\ StdoutPipeFailed
    /\ ret = [op |-> "Start", err |-> osp.pipe["out"]]
    /\ \A m \in MW : Len(writers[m]) >= 1 /\ osp.prog[m] # <<>>

\* Start has returned with StderrPipe having failed.
StderrPipeFailed == started # "none" /\ osp.pipe["err"] # Nil

\* C12: when StderrPipe fails, Start returns its error, calls neither
\* StdoutPipe nor cmd.Start and launches neither goroutine: no process runs
\* and no writer gets a Write or a Close.
C12_StderrPipeErrorStopsStart ==
    StderrPipeFailed =>
        /\ started = osp.pipe["err"]
        /\ osp.pipe["out"] = "none"
        /\ ~osp.spawned /\ osp.state = "new"
        /\ \A t \in Drains : pc[t] = "off"
        /\ \A m \in MW : osp.rd[m] = "none"
        /\ \A id \in DOMAIN sinks :
               sinks[id].data = <<>> /\ sinks[id].nw = 0 /\ sinks[id].nc = 0

\* Start has returned the error of StderrPipe, with a writer on each stream,
\* one of them registered after Start, and a program that would write to both.
C12_Witness ==
    /\ StderrPipeFailed
    /\ ret = [op |-> "Start", err |-> osp.pipe["err"]]
    /\ \A m \in MW : Len(writers[m]) >= 1 /\ osp.prog[m] # <<>>
    /\ \E m \in MW : atStart[m] = 0

\* The caller is between calls, after a Start that returned nil, and the
\* process has exited and has not been waited for.
WaitCanReturn ==
    /\ pc["caller"] = "idle"
    /\ started = Nil
    /\ osp.state = "exited" /\ ~osp.reaped

\* C13: Wait returns as soon as the process has exited, wherever the two copy
\* goroutines are: it waits for the process only.  (The interleaving in which
\* it has returned before a goroutine delivered and closed is C13_Witness.)
C13_WaitIgnoresDrains == WaitCanReturn => ENABLED process_Wait(Main)

\* Wait has returned nil while the stdout goroutine has still to read a byte
\* the process wrote, which the accepting writer registered before Start does
\* not hold, and while the stderr goroutine has not called close.
C13_Witness ==
    /\ started = Nil /\ ret = [op |-> "Wait", err |-> Nil]
    /\ pc["gout"] = "read" /\ osp.buf["out"] # <<>>
    /\ atStart["out"] >= 1 /\ AllOk("out")
    /\ sinks[writers["out"][1]].data # osp.wrote["out"]
    /\ pc["gerr"] \in {"read", "got", "copying", "copied"}
    /\ \A j \in 1..Len(writers["err"]) : sinks[writers["err"][j]].nc = 0

\* Goroutine t takes the lock in a Write in this step.
WriteTakesLock(t) == fr[t].op = "none" /\ fr'[t].op = "Write"

\* A writer of kind k takes the whole of p.
AcceptsWhole(k, p) == sink_Write(k, p) = [n |-> Len(p), err |-> Nil]

\* Writer id is registered on the multiWriter of t's Write.
Registered(t, id) == \E j \in 1..Len(writers[fr'[t].m]) : writers[fr'[t].m][j] = id

\* Writer id is registered on the multiWriter of t's Write, and every writer
\* registered before it takes the whole buffer.
Reached(t, id) ==
    \E j \in 1..Len(writers[fr'[t].m]) :
        /\ writers[fr'[t].m][j] = id
        /\ \A i \in 1..(j - 1) : AcceptsWhole(KindAt(fr'[t].m, i), fr'[t].p)

\* Writer id is called once with p in this step, and keeps what it takes of p
\* after what it held.
Given(id, p) ==
    /\ sinks'[id].nw = sinks[id].nw + 1
    /\ sinks'[id].data = sinks[id].data \o Accepted(sink_Write(sinks[id].kind, p).n, p)

\* Writer id gets no Write in this step.
NotGiven(id) == sinks'[id].nw = sinks[id].nw /\ sinks'[id].data = sinks[id].data

\* Writer id, new in this step, starts with nothing; one that was there gets
\* the buffer of t's Write when toldBy is such a t, and nothing when it is not.
Deliver(id, toldBy) ==
    IF id \notin DOMAIN sinks
    THEN sinks'[id].nw = 0 /\ sinks'[id].data = <<>>
    ELSE IF toldBy # {}
         THEN \E t \in toldBy : Given(id, fr'[t].p)
         ELSE NotGiven(id)

\* C14 as stated: a writer is given the buffer, whole, of every Write that
\* takes the lock after its registration, in the order of the Writes, and
\* nothing of a Write that took the lock before.
C14_GetsEveryLaterWrite ==
    [][\A id \in DOMAIN sinks' :
           Deliver(id, {t \in Threads : WriteTakesLock(t) /\ Registered(t, id)})]_vars

\* C14: a writer is given the buffer, whole, of every Write that takes the
\* lock after its registration and in which every writer registered before it
\* takes the whole buffer, in the order of the Writes; it is given nothing of
\* a Write that took the lock before its registration, and nothing of one
\* that a writer before it stopped.
C14_GetsLaterWritesReachingIt ==
    [][\A id \in DOMAIN sinks' :
           Deliver(id, {t \in Threads : WriteTakesLock(t) /\ Reached(t, id)})]_vars

\* Two Writes have returned: the accepting writer registered before both
\* holds both chunks in order, the one registered between them the second
\* chunk only, and the one registered after them nothing.
C14_Witness ==
    /\ nops = 2 /\ fr[Writer].op = "none"
    /\ Len(writers["out"]) = 3
    /\ \A j \in 1..3 : AcceptsWhole(KindAt("out", j), Chunk(1))
    /\ sinks[writers["out"][1]].data = Chunk(1) \o Chunk(2)
    /\ sinks[writers["out"][2]].data = Chunk(2)
    /\ sinks[writers["out"][3]].data = <<>>

\* The goroutines between Lock and Unlock of multiWriter m.
Inside(m) == {t \in Threads : fr[t].op # "none" /\ fr[t].m = m}

\* At most one goroutine is inside add, Write or close of a multiWriter, and
\* it is the one holding the mutex.
OneInside ==
    \A m \in MW :
        /\ Cardinality(Inside(m)) <= 1
        /\ mu[m] = Free <=> Inside(m) = {}
        /\ mu[m] # Free => Inside(m) = {mu[m]}

\* C15: at most one of add, Write and close is between Lock and Unlock of a
\* multiWriter; whatever the call returns (nil, a writer's error,
\* ErrShortWrite, a closer's error) its Unlock is the next thing the
\* goroutine does, so that a held mutex is always freed and a goroutine waiting
\* for it is not kept out for ever by a call that failed.
C15_LockExcludesAndIsReleased ==
    /\ []OneInside
    /\ [](\A t \in Threads : fr[t].op # "none" => ENABLED Unlock(t))
    /\ \A m \in MW : (mu[m] # Free) ~> (mu[m] = Free)

\* The caller is inside add after a Write and a close of the other goroutine
\* that both failed: the Write at a writer's error or short write, the close
\* at a closer's error.
C15_Witness ==
    /\ fr["caller"].op = "add" /\ mu["out"] = "caller"
    /\ nops = 2 /\ fr[Writer].op = "none" /\ fr[Writer].err = EOF
    /\ \E j \in 1..Len(writers["out"]) :
           /\ sinks[writers["out"][j]].nw = 1
           /\ ~AcceptsWhole(KindAt("out", j), Chunk(1))
    /\ \E j \in 1..Len(writers["out"]) :
           /\ sinks[writers["out"][j]].nc = 1
           /\ sink_Close(KindAt("out", j)) # Nil

\* io.Copy has returned in goroutine t.
Stopped(t) == pc[t] \in {"copied", "finishing", "end"}

\* Goroutine t takes the lock in close in this step.
CloseTakesLock(t) == fr[t].op = "none" /\ fr'[t].op = "close"

\* What close returns on m: the error of the first closer that fails.
CloseResult(m) == IF FailClose(m) # {} THEN sink_Close(KindAt(m, First(FailClose(m)))) ELSE Nil

\* A step of copy in goroutine t.
CopyStep(t) ==
    LET m == StreamOf(t) IN
    \* io.Copy returns at the end of the source, at a failed Read, or at a
    \* Write that returned an error or a short count, and then always
    /\ (~Stopped(t) /\ pc'[t] = "copied") =>
           \/ pc[t] = "read" /\ (osp'.rerr[m] # Nil \/ (osp.buf[m] = <<>> /\ osp.state = "exited"))
           \/ pc[t] = "copying" /\ fr[t].err # Nil
    /\ (pc[t] = "copying" /\ fr[t].err # Nil /\ pc'[t] # pc[t]) => pc'[t] = "copied"
    \* after that no writer of m is given a buffer
    /\ Stopped(t) =>
           /\ Stopped(t)'
           /\ \A j \in 1..Len(writers[m]) : NotGiven(writers[m][j])
    \* close is called then, and once
    /\ CloseTakesLock(t) <=> (pc[t] = "copied" /\ pc'[t] = "finishing")
    /\ pc[t] = "copied" => pc'[t] \in {"copied", "finishing"}
    /\ pc[t] = "finishing" => pc'[t] \in {"finishing", "end"}
    /\ pc[t] = "end" => pc'[t] = "end"
    \* and copy returns what close returned
    /\ pc[t] \in {"finishing", "end"} => fr'[t].err = fr[t].err

\* C16: copy stops forwarding at the end of the source, at a failed Read or at
\* a Write that failed or was short; from then on it gives no writer a
\* buffer; it calls close once, which calls each closer at most once; and it
\* returns what close returned.
C16_CopyStopsThenClosesOnce ==
    /\ [](\A t \in Drains : pc[t] = "finishing" =>
              fr[t].op = "close" /\ fr[t].err = CloseResult(StreamOf(t)))
    /\ [](\A id \in DOMAIN sinks : sinks[id].nc <= 1)
    /\ [][\A t \in Drains : CopyStep(t)]_vars

\* Both copies have returned: the one of stdout after a Write that a writer
\* failed, having closed the closer before it, whose error it returned; the
\* one of stderr after a Read of the closed pipe.
C16_Witness ==
    /\ \A t \in Drains : pc[t] = "end"
    /\ Len(writers["out"]) = 2
    /\ KindAt("out", 1) = closeWriter /\ KindAt("out", 2) = errWriter
    /\ \A j \in 1..2 : sinks[writers["out"][j]].nw = 1
    /\ sinks[writers["out"][1]].nc = 1
    /\ fr["gout"].err = EOF
    /\ osp.rerr["err"] = ErrClosed

\* C17 as stated: a copy whose io.Copy ended on a failed Read returns an
\* error, the error of that Read.
C17_ReadErrorIsReturned ==
    \A t \in Drains :
        (pc[t] = "end" /\ osp.rerr[StreamOf(t)] # Nil) =>
            fr[t].err = osp.rerr[StreamOf(t)]

\* The copy of stdout has returned nil, its io.Copy having ended on a failed
\* Read with a byte of the process unread; the writer of stdout has no Close.
C17_Witness ==
    /\ pc["gout"] = "end" /\ fr["gout"].op = "none"
    /\ osp.rerr["out"] = ErrClosed /\ osp.buf["out"] # <<>>
    /\ Len(writers["out"]) = 1 /\ ~IsCloser(KindAt("out", 1))
    /\ fr["gout"].err = Nil

\* What cmd.Process() returns for the Command as it is: a process that has
\* not been started, with the path and the base arguments of the Command.
Fresh == [NoProc EXCEPT !.made = TRUE, !.path = cmdv.path,
                        !.cmdArgs = <<cmdv.path>> \o cmdv.args]

\* The multiWriters and the goroutines of process p, and the writers
\* registered on it.
StreamsOf(p) == {Stream(p, m) : m \in MW}
DrainsOf(p) == {Drain(p, m) : m \in MW}
SinksOf(p) == UNION {Range(writers[m]) : m \in StreamsOf(p)}

\* This step leaves process p as it is: its process struct with the arguments,
\* its exec.Cmd and OS process, what its Start and Wait returned, its two
\* multiWriters with their mutexes, the writers registered on them, and its
\* two goroutines.
Same(p) ==
    /\ proc'[p] = proc[p]
    /\ osps'[p] = osps[p]
    /\ starts'[p] = starts[p]
    /\ waits'[p] = waits[p]
    /\ \A m \in StreamsOf(p) :
           writers'[m] = writers[m] /\ mu'[m] = mu[m] /\ atStart'[m] = atStart[m]
    /\ \A id \in SinksOf(p) : sinks'[id] = sinks[id]
    /\ \A t \in DrainsOf(p) : pc'[t] = pc[t] /\ fr'[t] = fr[t]

\* Process p as cmd.Process() returns it: not started, no exec.Cmd run, no
\* writer, no goroutine.
NotRunning(p) ==
    /\ starts[p] = "none" /\ ~waits[p]
    /\ osps[p].state = "new" /\ ~osps[p].spawned
    /\ \A m \in StreamsOf(p) : writers[m] = <<>> /\ mu[m] = Free
    /\ \A t \in DrainsOf(p) : pc[t] = "off"

\* A call of AppendArgs, Stdout, Stderr, Start, Wait or Kill on process p.
OpOn(p) ==
    \/ process_AppendArgs(p)
    \/ process_Stdout(p)
    \/ process_Stderr(p)
    \/ process_Start(p)
    \/ process_Wait(p)
    \/ process_Kill(p)

\* A step on a Command and its processes.
FactoryStep ==
    \* the base arguments never change, and SetPath changes the path only
    /\ cmdv'.args = cmdv.args
    /\ cmdv' # cmdv => \A p \in ProcIds : Same(p)
    \* Process() gives a process built from the Command as it is, not running
    /\ \A p \in ProcIds :
           (~proc[p].made /\ proc'[p].made) => (proc'[p] = Fresh /\ NotRunning(p)')
    \* which keeps its path and its base arguments
    /\ \A p \in ProcIds :
           proc[p].made =>
               /\ proc'[p].made /\ proc'[p].path = proc[p].path
               /\ SubSeq(proc'[p].cmdArgs, 1, 1 + Len(cmdv.args)) = <<proc[p].path>> \o cmdv.args
    \* a call on one process changes no other process, nor does a step of
    \* the goroutines or of the OS process of one
    /\ \A p, q \in ProcIds :
           p # q =>
               /\ Same(q) \/ ~OpOn(p)
               /\ Same(q) \/ Same(p)

\* C18: Process() returns a process that is not running, with the path the
\* Command has at that moment and its base arguments; AppendArgs, Stdout,
\* Stderr, Start, Wait and Kill on one process change neither the base
\* arguments of the Command nor the arguments, the writers or the state of
\* another process; SetPath changes the Command only, so only the processes
\* made after it.
C18_ProcessesAreIndependent == [][FactoryStep]_vars

\* Two processes made from one Command, before and after a SetPath, with
\* different arguments: each has a writer of its own that was given the byte
\* its program wrote and was closed, each has run and been waited for, and
\* the goroutines of both have ended.
C18_Witness ==
    /\ \A p \in ProcIds : proc[p].made /\ proc[p].calls # <<>>
    /\ proc[1].path # proc[2].path
    /\ proc[1].args # proc[2].args
    /\ cmdv.args # <<>>
    /\ \A p \in ProcIds :
           /\ Len(writers[Stream(p, "out")]) = 1
           /\ sinks[writers[Stream(p, "out")][1]].data = osps[p].wrote["out"]
           /\ sinks[writers[Stream(p, "out")][1]].nw = 1
           /\ sinks[writers[Stream(p, "out")][1]].nc = 1
           /\ osps[p].spawned /\ osps[p].reaped /\ waits[p]
           /\ osps[p].argv = <<proc[p].path>> \o cmdv.args \o proc[p].args
           /\ \A t \in DrainsOf(p) : pc[t] = "end"
    /\ writers["out"] # writers["out2"]

\* The first closer of m, when it was registered before Start, has been
\* closed.
CloseCalled(m) ==
    (Capable(m) # {} /\ First(Capable(m)) <= atStart[m]) =>
        sinks[writers[m][First(Capable(m))]].nc = 1

\* C19: after a Start that returned nil, whatever the writers return from
\* Write and Close, Start and Wait do not report it, each goroutine goes on to
\* close and to wg.Done, both end, and Wait, once called, returns the
\* configured wait error.
C19_FailingWritersDoNotBlockWait ==
    /\ []((ret.op = "Start" /\ tp.startErr = Nil) => ret.err = Nil)
    /\ []((ret.op = "Wait" /\ started = Nil) => ret.err = tp.waitErr)
    /\ [](\A t \in Drains : pc[t] \in {"closed", "end"} => CloseCalled(StreamOf(t)))
    /\ (started = Nil) ~> (wg = 0 /\ \A t \in Drains : pc[t] = "end")
    /\ (started = Nil) ~> (waited /\ ret = [op |-> "Wait", err |-> tp.waitErr])

\* Wait has returned the configured wait error after the goroutine of stdout
\* had its Write fail at the first writer and the goroutine of stderr its
\* close at the first closer.
C19_Witness ==
    /\ started = Nil /\ waited
    /\ tp.waitErr # Nil /\ ret = [op |-> "Wait", err |-> tp.waitErr]
    /\ atStart["out"] >= 1 /\ KindAt("out", 1) = errWriter
    /\ sinks[writers["out"][1]].nw = 1
    /\ atStart["err"] >= 1 /\ KindAt("err", 1) = closeWriter
    /\ sinks[writers["err"][1]].nc = 1
    /\ fr["gout"].err = Nil /\ fr["gerr"].err = EOF

\* The close of goroutine t, of copy or of testProcess.Start, has run.
CloseRan(t) == pc[t] \in {"closing", "closed", "finishing", "end"}

\* The writers of the multiWriter goroutine t writes to, after this step.
OwnWriters(t) == {writers'[StreamOf(t)][j] : j \in 1..Len(writers'[StreamOf(t)])}

\* Once the close of t has run, a writer of its multiWriter is left as it is,
\* and one registered then starts empty.
AfterClose(t) ==
    CloseRan(t) =>
        \A id \in OwnWriters(t) :
            IF id \in DOMAIN sinks THEN sinks'[id] = sinks[id]
            ELSE sinks'[id].nw = 0 /\ sinks'[id].nc = 0 /\ sinks'[id].data = <<>>

\* C20: a writer is closed in the close of its stream's goroutine only, and at
\* most once; once that close has run the writer gets no Write and no Close,
\* so that every Write it got came before its Close, and a writer registered
\* after the close gets no byte and no Close from the goroutine.
C20_WritesThenOneClose ==
    /\ [](\A id \in DOMAIN sinks : sinks[id].nc <= 1)
    /\ [](\A t \in Drains : \A j \in 1..Len(writers[StreamOf(t)]) :
              sinks[writers[StreamOf(t)][j]].nc = 1 => CloseRan(t))
    /\ [][\A t \in Drains : AfterClose(t)]_vars

\* The copy of stdout has ended, having written to a writer and closed it,
\* and the caller is registering a second writer on stdout, which is empty.
C20_Witness ==
    /\ pc["gout"] = "end"
    /\ fr["caller"].op = "add" /\ fr["caller"].m = "out"
    /\ Len(writers["out"]) = 2
    /\ sinks[writers["out"][1]].nw = 1 /\ sinks[writers["out"][1]].nc = 1
    /\ sinks[writers["out"][1]].data = osp.wrote["out"]
    /\ sinks[writers["out"][2]] = NewSink(closeWriter)

====
